---------------------------- MODULE Spec2Model ----------------------------
(***************************************************************************)
(* Model of prodcal_ics.py: fetch the yearly production calendar page,     *)
(* parse it into 12 month maps (day -> (kind, holiday name)), group the    *)
(* days of each kind into consecutive runs of at most MAX_SPAN_DAYS days,  *)
(* build one all-day event per run and write the feed.                     *)
(*                                                                         *)
(* Texts are sequences of tokens (words, whitespace, the period, numbers   *)
(* written in digits).  The Russian words of the page are written in       *)
(* Latin letters: "Vyhodnoj den" is the "day off" marker, "Predprazdnichnyj *)
(* den" the "pre-holiday day" marker.  Python's None, the empty string and  *)
(* the empty list are all falsy and are written <<>> where the code only   *)
(* tests their truth.                                                      *)
(***************************************************************************)
EXTENDS Naturals, Integers, Sequences, FiniteSets, TLC

VARIABLES
    \* ---- the classifier taken alone (ClassifySpec)
    cpc, hint_text, li_classes, oldResult, fbResult,
    \* ---- the run grouper taken alone (GroupSpec)
    gpc, days, groups, chunks,
    \* ---- generate_events taken alone (EventsSpec)
    epc, eyear, emaps, eresult,
    \* ---- make_event taken alone (EventsSpec)
    upc, uargs, uevent,
    \* ---- the orchestrator (Spec)
    pc, site, year, events, fetched, error, written, file, now,
    runs, prevWritten, prevFile

classifyVars == <<cpc, hint_text, li_classes, oldResult, fbResult>>
groupVars == <<gpc, days, groups, chunks>>
eventVars == <<epc, eyear, emaps, eresult>>
uidVars == <<upc, uargs, uevent>>
mainVars == <<pc, site, year, events, fetched, error, written, file, now,
              runs, prevWritten, prevFile>>
vars == <<classifyVars, groupVars, eventVars, uidVars, mainVars>>

(***************************************************************************)
(* Bounds of the model.                                                    *)
(***************************************************************************)
\* longest text that follows the marker prefix of a classified text
MaxTailLen == 4
\* the day numbers of the grouper's and the event builder's inputs span MaxDay days
MaxDay == 10
\* the years of a run: start_year .. start_year + MaxYears - 1
MaxYears == 3
\* the clock stops at MaxClock
MaxClock == 2

(***************************************************************************)
(* Text.                                                                   *)
(***************************************************************************)
None == <<>>

SP == " "
NL == "<nl>"
NBSP == "<nbsp>"
DOT == "."
FRAG == "<cut>"
LONG == "<long>"

\* str.isspace(): a non-breaking space is whitespace for strip() and for \s
IsSpace(tok) == tok \in {SP, NL, NBSP}

RECURSIVE LStrip(_)
LStrip(t) ==
    IF t # <<>> /\ IsSpace(Head(t)) THEN LStrip(Tail(t)) ELSE t

RECURSIVE RStrip(_)
RStrip(t) ==
    IF t # <<>> /\ IsSpace(t[Len(t)]) THEN RStrip(SubSeq(t, 1, Len(t) - 1)) ELSE t

\* str.strip()
Strip(t) == RStrip(LStrip(t))

\* str.startswith(prefix)
StartsWith(t, prefix) ==
    /\ Len(t) >= Len(prefix)
    /\ SubSeq(t, 1, Len(prefix)) = prefix

\* index of the first token of t that is in the set seps, 0 when there is none
RECURSIVE FirstFrom(_, _, _)
FirstFrom(t, seps, i) ==
    IF i > Len(t) THEN 0
    ELSE IF t[i] \in seps THEN i
    ELSE FirstFrom(t, seps, i + 1)

FirstOf(t, seps) == FirstFrom(t, seps, 1)

\* s.split(".", 1)[1], for a text that holds a period
AfterFirstDot(t) == SubSeq(t, FirstOf(t, {DOT}) + 1, Len(t))

\* re.split(r"[.\n\r]", name, maxsplit=1)[0]
BeforeSentenceEnd(t) ==
    IF FirstOf(t, {DOT, NL}) = 0 THEN t ELSE SubSeq(t, 1, FirstOf(t, {DOT, NL}) - 1)

\* str.replace("\xa0", " ")
RECURSIVE ReplaceNbsp(_)
ReplaceNbsp(t) ==
    IF t = <<>> THEN <<>>
    ELSE <<IF Head(t) = NBSP THEN SP ELSE Head(t)>> \o ReplaceNbsp(Tail(t))

\* the markers of the page
PRE_HOLIDAY == <<"Predprazdnichnyj", SP, "den">>
DAY_OFF == <<"Vyhodnoj", SP, "den">>
DAY_OFF_DOT == DAY_OFF \o <<DOT>>

Unclassified == [kind |-> "working", name |-> None]
Classified(kind, name) == [kind |-> kind, name |-> name]

\* "shortened" in (li_classes or ""): a substring test on the class attribute
CLASS_PLAIN == "calendar-list__numbers__item"
CLASS_DAY_OFF == "calendar-list__numbers__item calendar-list__numbers__item_day-off"
CLASS_SHORTENED == "calendar-list__numbers__item calendar-list__numbers__item_shortened"
LiClasses == {CLASS_PLAIN, CLASS_DAY_OFF, CLASS_SHORTENED}
HasShortened(classes) == classes = CLASS_SHORTENED

\* _classify_day_type with the bare "day off" prefix tried before "day off."
classify_day_type_dayoff_first(hint, classes) ==
    LET h == Strip(hint) IN
    IF HasShortened(classes) THEN Classified("shortened", None)
    ELSE IF StartsWith(h, PRE_HOLIDAY) THEN Classified("shortened", None)
    ELSE IF StartsWith(h, DAY_OFF) THEN Classified("dayoff", None)
    ELSE IF StartsWith(h, DAY_OFF_DOT)
         THEN Classified("holiday", Strip(AfterFirstDot(h)))
    ELSE Unclassified

\* _classify_day_type(hint_text, li_classes)
classify_day_type(hint, classes) ==
    LET h == Strip(hint) IN
    IF HasShortened(classes) THEN Classified("shortened", None)
    ELSE IF StartsWith(h, PRE_HOLIDAY) THEN Classified("shortened", None)
    ELSE IF StartsWith(h, DAY_OFF_DOT)
         THEN Classified("holiday", Strip(AfterFirstDot(h)))
    ELSE IF StartsWith(h, DAY_OFF) THEN Classified("dayoff", None)
    ELSE Unclassified

\* parse_months_text_fallback: the classification of the window after a day number
classify_window(window) ==
    IF StartsWith(window, PRE_HOLIDAY) THEN Classified("shortened", None)
    ELSE IF StartsWith(window, DAY_OFF_DOT)
         THEN Classified("holiday", Strip(BeforeSentenceEnd(Strip(AfterFirstDot(window)))))
    ELSE IF StartsWith(window, DAY_OFF) THEN Classified("dayoff", None)
    ELSE Unclassified

\* the number of characters of a token: the Russian words of the page, a
\* whitespace character, a period, a number in digits, and LONG, a run of
\* 110 characters without whitespace or period
TokLen(tok) ==
    CASE tok \in {SP, NL, NBSP, DOT} -> 1
      [] tok = "Vyhodnoj" -> 8
      [] tok = "den" -> 4
      [] tok = "Predprazdnichnyj" -> 15
      [] tok = "Novogodnie" -> 10
      [] tok = "kanikuly" -> 8
      [] tok = LONG -> 110
      [] OTHER -> Len(tok)

\* s[:n], n counted in characters: a token the cut falls in is left as FRAG
RECURSIVE TakeChars(_, _)
TakeChars(t, n) ==
    IF t = <<>> \/ n <= 0 THEN <<>>
    ELSE IF TokLen(Head(t)) <= n
         THEN <<Head(t)>> \o TakeChars(Tail(t), n - TokLen(Head(t)))
         ELSE <<FRAG>>

RECURSIVE CharLen(_)
CharLen(t) == IF t = <<>> THEN 0 ELSE TokLen(Head(t)) + CharLen(Tail(t))

\* chunk[m.end(): m.end() + 120]
WINDOW == 120

\* parse_months_text_fallback on the text that follows a day number: the
\* non-breaking spaces replaced, the window cut and stripped, then classified
fallback_classify(trailing) ==
    classify_window(Strip(TakeChars(ReplaceNbsp(trailing), WINDOW)))

(***************************************************************************)
(* ClassifySpec: both classifications of one text.                         *)
(***************************************************************************)
TailAlphabet == {SP, NBSP, DOT, NL, LONG, "Novogodnie"}
TailTexts == UNION {[1..n -> TailAlphabet] : n \in 0..MaxTailLen}
Prefixes ==
    {<<>>, DAY_OFF, PRE_HOLIDAY, <<SP>> \o DAY_OFF, <<"Vyhodnoj">>,
     <<"Vyhodnoj", NBSP, "den">>}

IdleClassify ==
    /\ cpc = "idle" /\ hint_text = <<>> /\ li_classes = CLASS_PLAIN
    /\ oldResult = Unclassified /\ fbResult = Unclassified

ClassifyInit ==
    /\ cpc = "start"
    /\ \E p \in Prefixes, t \in TailTexts : hint_text = p \o t
    /\ li_classes \in {CLASS_DAY_OFF, CLASS_SHORTENED}
    /\ oldResult = Unclassified /\ fbResult = Unclassified

\* the structured layout classifies the hint of a day element
ClassifyOld ==
    /\ cpc = "start"
    /\ oldResult' = classify_day_type(hint_text, li_classes)
    /\ cpc' = "old"
    /\ UNCHANGED <<hint_text, li_classes, fbResult>>

\* the flat-text fallback classifies the same text
ClassifyFallback ==
    /\ cpc = "old"
    /\ fbResult' = fallback_classify(hint_text)
    /\ cpc' = "done"
    /\ UNCHANGED <<hint_text, li_classes, oldResult>>

(***************************************************************************)
(* Run grouper.                                                            *)
(***************************************************************************)
MAX_SPAN_DAYS == 7

Min(a, b) == IF a <= b THEN a ELSE b

RECURSIVE Insert(_, _)
Insert(x, s) ==
    IF s = <<>> THEN <<x>>
    ELSE IF x <= Head(s) THEN <<x>> \o s
    ELSE <<Head(s)>> \o Insert(x, Tail(s))

\* sorted(days) left out
sorted_missing(s) == s

\* sorted(days)
RECURSIVE sorted(_)
sorted(s) == IF s = <<>> THEN <<>> ELSE Insert(Head(s), sorted(Tail(s)))

\* the loop of group_consecutive_days: "for d in days[1:]"
RECURSIVE GroupLoop(_, _)
GroupLoop(gs, rest) ==
    IF rest = <<>> THEN gs
    ELSE LET d == Head(rest)
             last == gs[Len(gs)]
         IN  IF d = last[Len(last)] + 1
             THEN GroupLoop([gs EXCEPT ![Len(gs)] = Append(last, d)], Tail(rest))
             ELSE GroupLoop(Append(gs, <<d>>), Tail(rest))

\* group_consecutive_days(days)
group_consecutive_days(ds) ==
    IF ds = <<>> THEN <<>>
    ELSE LET s == sorted(ds) IN GroupLoop(<< <<s[1]>> >>, Tail(s))

\* the loop of split_run_into_chunks: "while i < len(run)", i counted from 1
RECURSIVE SplitLoop(_, _, _)
SplitLoop(run, i, max_len) ==
    IF i > Len(run) THEN <<>>
    ELSE << SubSeq(run, i, Min(i + max_len - 1, Len(run))) >>
         \o SplitLoop(run, i + max_len, max_len)

\* split_run_into_chunks whose slices are one day too long
split_run_into_chunks_long(run, max_len) ==
    IF Len(run) <= max_len THEN <<run>> ELSE SplitLoop(run, 1, max_len + 1)

\* split_run_into_chunks(run, max_len)
split_run_into_chunks(run, max_len) ==
    IF Len(run) <= max_len THEN <<run>> ELSE SplitLoop(run, 1, max_len)

\* "for run in group_consecutive_days(days): for chunk in split_run_into_chunks(run, ...)"
RECURSIVE ChunksOf(_)
ChunksOf(gs) ==
    IF gs = <<>> THEN <<>>
    ELSE split_run_into_chunks(Head(gs), MAX_SPAN_DAYS) \o ChunksOf(Tail(gs))

(***************************************************************************)
(* GroupSpec: the grouper on one list of day numbers.                      *)
(***************************************************************************)
\* the members of a set of numbers in ascending order
RECURSIVE Ascending(_)
Ascending(S) ==
    IF S = {} THEN <<>>
    ELSE LET m == CHOOSE x \in S : \A y \in S : x <= y
         IN  <<m>> \o Ascending(S \ {m})

RECURSIVE Reverse(_)
Reverse(s) == IF s = <<>> THEN <<>> ELSE Reverse(Tail(s)) \o <<Head(s)>>

Rotate(s) == IF s = <<>> THEN <<>> ELSE Tail(s) \o <<Head(s)>>

\* the lists of day numbers given to the grouper: every set of days, in
\* ascending, descending and rotated order, alone and with one day repeated
DayLists ==
    LET Bases == {Ascending(S) : S \in SUBSET (1..MaxDay)}
        WithRepeat == Bases \cup UNION {{b \o <<b[i]>> : i \in 1..Len(b)} : b \in Bases}
    IN  UNION {{l, Reverse(l), Rotate(l)} : l \in WithRepeat}

IdleGroup == gpc = "idle" /\ days = <<>> /\ groups = <<>> /\ chunks = <<>>

GroupInit ==
    /\ gpc = "start"
    /\ days \in DayLists
    /\ groups = <<>> /\ chunks = <<>>

Group ==
    /\ gpc = "start"
    /\ groups' = group_consecutive_days(days)
    /\ gpc' = "grouped"
    /\ UNCHANGED <<days, chunks>>

Split ==
    /\ gpc = "grouped"
    /\ chunks' = ChunksOf(groups)
    /\ gpc' = "done"
    /\ UNCHANGED <<days, groups>>

(***************************************************************************)
(* Event builder.                                                          *)
(***************************************************************************)
\* datetime.date: <<year, month, day>>
IsLeap(y) == (y % 4 = 0 /\ y % 100 # 0) \/ y % 400 = 0

DaysInMonth(y, m) ==
    CASE m \in {1, 3, 5, 7, 8, 10, 12} -> 31
      [] m \in {4, 6, 9, 11} -> 30
      [] OTHER -> IF IsLeap(y) THEN 29 ELSE 28

\* datetime(year, month, day, 0, 0, 0) raises ValueError unless this holds
ValidDate(y, m, d) ==
    /\ y \in 1..9999
    /\ m \in 1..12
    /\ d \in 1..DaysInMonth(y, m)

\* date + timedelta(days=1)
NextDay(date) ==
    LET y == date[1]
        m == date[2]
        d == date[3]
    IN  IF d < DaysInMonth(y, m) THEN <<y, m, d + 1>>
        ELSE IF m < 12 THEN <<y, m + 1, 1>>
        ELSE <<y + 1, 1, 1>>

\* the summaries, character by character
SUMMARY_DAY_OFF == <<"D", "a", "y", " ", "o", "f", "f">>
SUMMARY_HOLIDAY == <<"H", "o", "l", "i", "d", "a", "y">>
SUMMARY_SHORTENED ==
    <<"S", "h", "o", "r", "t", "e", "n", "e", "d", " ", "w", "o", "r", "k", "d", "a", "y">>
Summaries == {SUMMARY_DAY_OFF, SUMMARY_HOLIDAY, SUMMARY_SHORTENED}

\* str.lower() on the characters of the summaries
Lower(c) ==
    CASE c = "D" -> "d"
      [] c = "H" -> "h"
      [] c = "S" -> "s"
      [] OTHER -> c

\* summary.lower().replace(' ', '-')
Slug(summary) ==
    [i \in 1..Len(summary) |->
        IF Lower(summary[i]) = " " THEN "-" ELSE Lower(summary[i])]

DigitChars == <<"0", "1", "2", "3", "4", "5", "6", "7", "8", "9">>

\* f"{n}"
RECURSIVE Digits(_)
Digits(n) ==
    IF n < 10 THEN <<DigitChars[n + 1]>>
    ELSE Digits(n \div 10) \o <<DigitChars[(n % 10) + 1]>>

\* f"{n:02d}"
Pad2(n) == IF n < 10 THEN <<"0">> \o Digits(n) ELSE Digits(n)

UID_PREFIX == <<"r", "u", "-", "p", "r", "o", "d", "c", "a", "l", "-">>

\* f"ru-prodcal-{year}{month:02d}{day_start:02d}-{day_end:02d}-{summary...}"
Uid(y, month, day_start, day_end, summary) ==
    UID_PREFIX \o Digits(y) \o Pad2(month) \o Pad2(day_start)
        \o <<"-">> \o Pad2(day_end) \o <<"-">> \o Slug(summary)

ValueError ==
    [raised |-> TRUE, summary |-> <<>>, description |-> None, dtstart |-> <<>>,
     dtend |-> <<>>, dtstamp |-> 0, uid |-> <<>>]

\* make_event whose DTEND is the last day itself
make_event_inclusive_end(y, month, day_start, day_end, summary, description, utcnow) ==
    IF ~ValidDate(y, month, day_start) \/ ~ValidDate(y, month, day_end)
    THEN ValueError
    ELSE [raised |-> FALSE, summary |-> summary, description |-> description,
          dtstart |-> <<y, month, day_start>>,
          dtend |-> <<y, month, day_end>>,
          dtstamp |-> utcnow,
          uid |-> Uid(y, month, day_start, day_end, summary)]

\* make_event whose UID leaves the end day out
make_event_uid_no_end(y, month, day_start, day_end, summary, description, utcnow) ==
    IF ~ValidDate(y, month, day_start) \/ ~ValidDate(y, month, day_end)
    THEN ValueError
    ELSE [raised |-> FALSE, summary |-> summary, description |-> description,
          dtstart |-> <<y, month, day_start>>,
          dtend |-> NextDay(<<y, month, day_end>>),
          dtstamp |-> utcnow,
          uid |-> UID_PREFIX \o Digits(y) \o Pad2(month) \o Pad2(day_start)
                    \o <<"-">> \o Slug(summary)]

\* make_event whose UID carries the build time
make_event_uid_stamp(y, month, day_start, day_end, summary, description, utcnow) ==
    IF ~ValidDate(y, month, day_start) \/ ~ValidDate(y, month, day_end)
    THEN ValueError
    ELSE [raised |-> FALSE, summary |-> summary, description |-> description,
          dtstart |-> <<y, month, day_start>>,
          dtend |-> NextDay(<<y, month, day_end>>),
          dtstamp |-> utcnow,
          uid |-> Uid(y, month, day_start, day_end, summary) \o <<"-">> \o Digits(utcnow)]

\* make_event(year, month, day_start, day_end, summary, description); utcnow is
\* what datetime.utcnow() returns during the call
make_event(y, month, day_start, day_end, summary, description, utcnow) ==
    IF ~ValidDate(y, month, day_start) \/ ~ValidDate(y, month, day_end)
    THEN ValueError
    ELSE [raised |-> FALSE, summary |-> summary, description |-> description,
          dtstart |-> <<y, month, day_start>>,
          dtend |-> NextDay(<<y, month, day_end>>),
          dtstamp |-> utcnow,
          uid |-> Uid(y, month, day_start, day_end, summary)]

\* A month map is a dict: a sequence of entries [day, kind, name] in insertion
\* order, no day twice.
\* "[d for d, (k, _) in month_map.items() if k == kind]"
DaysOfKind(month_map, kind) ==
    LET sel == SelectSeq(month_map, LAMBDA e : e.kind = kind)
    IN  [i \in 1..Len(sel) |-> sel[i].day]

\* "{d: (month_map[d][1] or "") for d in holiday_days}"
HolidayDesc(month_map) ==
    LET sel == SelectSeq(month_map, LAMBDA e : e.kind = "holiday")
    IN  [i \in 1..Len(sel) |-> [day |-> sel[i].day, name |-> sel[i].name]]

\* desc_lookup.get(x)
Get(desc_lookup, x) ==
    IF \E i \in 1..Len(desc_lookup) : desc_lookup[i].day = x
    THEN desc_lookup[CHOOSE i \in 1..Len(desc_lookup) : desc_lookup[i].day = x].name
    ELSE None

\* the description add_grouped gives a chunk
Description(chunk, desc_lookup) ==
    IF desc_lookup = <<>> THEN None
    ELSE LET names == {Get(desc_lookup, chunk[i]) : i \in 1..Len(chunk)} \ {None}
         IN  IF Cardinality(names) = 1 THEN CHOOSE n \in names : TRUE ELSE None

\* generate_events.add_grouped(days, summary, desc_lookup)
add_grouped(y, month, ds, summary, desc_lookup, utcnow) ==
    LET cs == ChunksOf(group_consecutive_days(ds))
    IN  [i \in 1..Len(cs) |->
            make_event(y, month, cs[i][1], cs[i][Len(cs[i])], summary,
                       Description(cs[i], desc_lookup), utcnow)]

\* the body of the loop over the months
MonthEvents(y, month, month_map, utcnow) ==
    add_grouped(y, month, DaysOfKind(month_map, "dayoff"), SUMMARY_DAY_OFF, <<>>, utcnow)
    \o add_grouped(y, month, DaysOfKind(month_map, "holiday"), SUMMARY_HOLIDAY,
                   HolidayDesc(month_map), utcnow)
    \o add_grouped(y, month, DaysOfKind(month_map, "shortened"), SUMMARY_SHORTENED,
                   <<>>, utcnow)

\* "for month, month_map in enumerate(months_maps, start=1)"
RECURSIVE MonthsLoop(_, _, _, _)
MonthsLoop(y, months_maps, month, utcnow) ==
    IF month > Len(months_maps) THEN <<>>
    ELSE MonthEvents(y, month, months_maps[month], utcnow)
         \o MonthsLoop(y, months_maps, month + 1, utcnow)

\* generate_events(year, months_maps): the events, or the ValueError of the
\* first make_event that is given a day the month does not have
generate_events(y, months_maps, utcnow) ==
    LET evs == MonthsLoop(y, months_maps, 1, utcnow)
    IN  IF \E i \in 1..Len(evs) : evs[i].raised
        THEN [status |-> "ValueError", events |-> <<>>]
        ELSE [status |-> "ok", events |-> evs]

(***************************************************************************)
(* Month parser.                                                           *)
(*                                                                         *)
(* A page is what lxml gives for its bytes: months, the elements the       *)
(* structured layout's query selects, each a sequence of day cells with    *)
(* the cell's text content (day_raw), the text nodes of its calendar-hint  *)
(* divs (hint) and its class attribute (classes); and text, the text       *)
(* content of the whole tree.                                              *)
(***************************************************************************)
MONTHS_RU ==
    <<"Yanvar", "Fevral", "Mart", "Aprel", "Maj", "Iyun",
      "Iyul", "Avgust", "Sentyabr", "Oktyabr", "Noyabr", "Dekabr">>

\* the numbers of one or two digits: NUMBERS[n + 1] is n written in digits
NUMBERS ==
    <<"0", "1", "2", "3", "4", "5", "6", "7", "8", "9", "10", "11", "12", "13",
      "14", "15", "16", "17", "18", "19", "20", "21", "22", "23", "24", "25",
      "26", "27", "28", "29", "30", "31", "32">>

\* \d{1,2} standing alone
IsNumber(tok) == \E i \in 1..Len(NUMBERS) : NUMBERS[i] = tok

\* int(m.group(1))
ToInt(tok) == (CHOOSE i \in 1..Len(NUMBERS) : NUMBERS[i] = tok) - 1

\* month_map[day] = value: a key that is present keeps its place
DictSet(month_map, day, value) ==
    LET entry == [day |-> day, kind |-> value.kind, name |-> value.name]
    IN  IF \E i \in 1..Len(month_map) : month_map[i].day = day
        THEN [i \in 1..Len(month_map) |->
                 IF month_map[i].day = day THEN entry ELSE month_map[i]]
        ELSE Append(month_map, entry)

\* re.match(r"^\s*(\d{1,2})\b", day_raw): the token of the day number, or None.
\* A word that follows the digits with nothing between leaves no \b.
MatchDay(day_raw) ==
    LET t == LStrip(day_raw)
    IN  IF /\ t # <<>>
           /\ IsNumber(Head(t))
           /\ (Len(t) = 1 \/ IsSpace(t[2]) \/ t[2] = DOT)
        THEN <<Head(t)>>
        ELSE None

\* " ".join([t.strip() for t in hint if t.strip()]).strip()
RECURSIVE JoinHint(_)
JoinHint(hint) ==
    IF hint = <<>> THEN <<>>
    ELSE IF Strip(Head(hint)) = <<>> THEN JoinHint(Tail(hint))
    ELSE LET rest == JoinHint(Tail(hint))
         IN  IF rest = <<>> THEN Strip(Head(hint))
             ELSE Strip(Head(hint)) \o <<SP>> \o rest

\* the loop of parse_months_old_layout over the day cells of one month
RECURSIVE OldMonthLoop(_, _)
OldMonthLoop(month_map, lis) ==
    IF lis = <<>> THEN month_map
    ELSE LET li == Head(lis)
             mday == MatchDay(Strip(li.day_raw))
             classified == classify_day_type(Strip(JoinHint(li.hint)), li.classes)
         IN  IF mday = None THEN OldMonthLoop(month_map, Tail(lis))
             ELSE IF classified = Unclassified THEN OldMonthLoop(month_map, Tail(lis))
             ELSE OldMonthLoop(DictSet(month_map, ToInt(mday[1]), classified), Tail(lis))

\* parse_months_old_layout(tree)
parse_months_old_layout(tree) ==
    IF Len(tree.months) # 12 THEN <<>>
    ELSE [i \in 1..12 |-> OldMonthLoop(<<>>, tree.months[i])]

\* text.find(name), counted from 1; 0 when the name is not in the text
Find(text, name) == FirstOf(text, {name})

\* chunk[a:b] of Python, the positions counted from 1
Slice(text, a, b) == IF a > b THEN <<>> ELSE SubSeq(text, a, b)

\* re.finditer(r"(?:^|\s)(\d{1,2})(?=\s+)", chunk): the places of the numbers
\* that follow the start of the chunk or whitespace and precede whitespace
DayMatches(chunk) ==
    {j \in 1..Len(chunk) :
        /\ IsNumber(chunk[j])
        /\ (j = 1 \/ IsSpace(chunk[j - 1]))
        /\ j < Len(chunk)
        /\ IsSpace(chunk[j + 1])}

\* the loop of parse_months_text_fallback over the matches of one chunk
RECURSIVE FallbackMonthLoop(_, _, _)
FallbackMonthLoop(month_map, chunk, places) ==
    IF places = <<>> THEN month_map
    ELSE LET j == Head(places)
             window == Strip(TakeChars(Slice(chunk, j + 1, Len(chunk)), WINDOW))
             kind == classify_window(window)
         IN  IF kind = Unclassified
             THEN FallbackMonthLoop(month_map, chunk, Tail(places))
             ELSE FallbackMonthLoop(DictSet(month_map, ToInt(chunk[j]), kind),
                                    chunk, Tail(places))

Raise(msg) == [raised |-> TRUE, value |-> <<>>, message |-> msg]
Return(value) == [raised |-> FALSE, value |-> value, message |-> <<>>]

MSG_MONTH_NAMES ==
    <<"Could not find all month names in HH page text (layout changed).">>
MSG_12_MONTHS(y) ==
    <<"Could not parse 12 months for year ">> \o Digits(y) \o <<" (HH layout changed).">>
MSG_HTTP == <<"HTTPError">>
MSG_TRANSPORT == <<"ConnectionError">>
MSG_VALUE == <<"ValueError: day is out of range for month">>

\* parse_months_text_fallback(tree)
parse_months_text_fallback(tree) ==
    LET text == ReplaceNbsp(tree.text)
        positions == [i \in 1..12 |-> Find(text, MONTHS_RU[i])]
        chunk(i) ==
            Slice(text, positions[i],
                  IF i < 12 THEN positions[i + 1] - 1 ELSE Len(text))
    IN  IF \E i \in 1..12 : positions[i] = 0
        THEN Raise(MSG_MONTH_NAMES)
        ELSE Return([i \in 1..12 |->
                 FallbackMonthLoop(<<>>, chunk(i), Ascending(DayMatches(chunk(i))))])

\* fetch_hh_calendar_page(year), given the answer of the site for the year:
\* None for 404, raise_for_status() raises for the other statuses from 400 on
fetch_hh_calendar_page(response) ==
    IF response.transport_failure THEN Raise(MSG_TRANSPORT)
    ELSE IF response.status_code = 404 THEN Return(None)
    ELSE IF response.status_code >= 400 THEN Raise(MSG_HTTP)
    ELSE Return(<<response.content>>)

\* get_days_by_months_with_types that gives up silently when no layout fits
get_days_by_months_with_types_silent(y, response) ==
    LET content == fetch_hh_calendar_page(response)
    IN  IF content.raised THEN Return(None)
        ELSE IF content.value = None THEN Return(None)
        ELSE LET tree == content.value[1]
                 old == parse_months_old_layout(tree)
                 new == parse_months_text_fallback(tree)
             IN  IF old # <<>> /\ Len(old) = 12 THEN Return(old)
                 ELSE IF new.raised THEN Return(None)
                 ELSE Return(new.value)

\* get_days_by_months_with_types(year)
get_days_by_months_with_types(y, response) ==
    LET content == fetch_hh_calendar_page(response)
    IN  IF content.raised THEN content
        ELSE IF content.value = None THEN Return(None)
        ELSE LET tree == content.value[1]
                 old == parse_months_old_layout(tree)
                 new == parse_months_text_fallback(tree)
             IN  IF old # <<>> /\ Len(old) = 12 THEN Return(old)
                 ELSE IF new.raised THEN new
                 ELSE IF new.value # <<>> /\ Len(new.value) = 12 THEN new
                 ELSE Raise(MSG_12_MONTHS(y))

(***************************************************************************)
(* The site: what a GET of a year's page is answered with.                 *)
(***************************************************************************)
NEW_YEAR == <<"Novogodnie", SP, "kanikuly">>
DEFENDER == <<"Den", SP, "zashchitnika">>
HolidayHint(name) == DAY_OFF_DOT \o <<SP>> \o name

\* <li class=...> number <div class="calendar-hint">hint</div> </li>
Cell(num, hint, classes) ==
    [day_raw |-> <<NL, num, NL>> \o hint \o <<NL>>,
     hint |-> IF hint = <<>> THEN <<>> ELSE <<hint>>,
     classes |-> classes]

\* the same with nothing between the number and the hint
TightCell(num, hint, classes) ==
    [day_raw |-> <<num>> \o hint, hint |-> <<hint>>, classes |-> classes]

NoCells == [i \in 1..12 |-> <<>>]

\* a structured page: eight days of new year holidays, two days off after
\* them, a shortened day before a holiday, a day off on 31 December
PAGE_OLD_A ==
    [months |->
        [NoCells EXCEPT
            ![1] = [d \in 1..8 |-> Cell(NUMBERS[d + 1], HolidayHint(NEW_YEAR), CLASS_DAY_OFF)]
                   \o <<Cell("9", <<>>, CLASS_PLAIN),
                        Cell("10", DAY_OFF, CLASS_DAY_OFF),
                        Cell("11", DAY_OFF, CLASS_DAY_OFF)>>,
            ![2] = <<Cell("22", PRE_HOLIDAY, CLASS_SHORTENED),
                     Cell("23", HolidayHint(DEFENDER), CLASS_DAY_OFF)>>,
            ![12] = <<Cell("30", <<>>, CLASS_SHORTENED),
                      Cell("31", DAY_OFF, CLASS_DAY_OFF)>>],
     text |-> <<"Proizvodstvennyj", SP, "kalendar">>]

\* a structured page whose January grid opens with the last days of December,
\* has a holiday without a name, a cell without whitespace and an empty cell
PAGE_OLD_B ==
    [months |->
        [NoCells EXCEPT
            ![1] = <<Cell("30", <<>>, CLASS_PLAIN),
                     Cell("31", DAY_OFF, CLASS_DAY_OFF),
                     Cell("1", HolidayHint(NEW_YEAR), CLASS_DAY_OFF),
                     Cell("2", DAY_OFF_DOT, CLASS_DAY_OFF),
                     TightCell("3", DAY_OFF, CLASS_DAY_OFF),
                     [day_raw |-> <<NL>>, hint |-> <<>>, classes |-> CLASS_PLAIN],
                     Cell("4", DAY_OFF \o <<SP, "(perenos)">>, CLASS_DAY_OFF),
                     Cell("5", DAY_OFF, CLASS_DAY_OFF)>>,
            ![3] = <<Cell("8", HolidayHint(<<"Zhenskij", SP, "den", DOT, SP, "Prazdnik">>),
                          CLASS_DAY_OFF),
                     Cell("7", PRE_HOLIDAY, CLASS_PLAIN)>>],
     text |-> <<"Proizvodstvennyj", SP, "kalendar">>]

\* a structured page of twelve months without a single marked day
PAGE_EMPTY == [months |-> NoCells, text |-> <<"Proizvodstvennyj", SP, "kalendar">>]

\* "name\n" and "number text\n" of the flat text
MonthLine(i) == <<MONTHS_RU[i], NL>>
DayLine(num, text) == <<num, SP>> \o text \o <<NL>>

RECURSIVE MonthLines(_, _)
MonthLines(from, to) ==
    IF from > to THEN <<>> ELSE MonthLine(from) \o MonthLines(from + 1, to)

\* a page of the new layout: no month containers, the calendar in the text
PAGE_NEW ==
    [months |-> <<>>,
     text |->
        <<"Proizvodstvennyj", NBSP, "kalendar", NL>>
        \o MonthLine(1)
        \o DayLine("1", HolidayHint(NEW_YEAR))
        \o DayLine("2", HolidayHint(NEW_YEAR) \o <<DOT, SP, "Prazdnik">>)
        \o DayLine("3", DAY_OFF_DOT)
        \o DayLine("4", <<>>)
        \o DayLine("5", <<"Vyhodnoj", NBSP, "den">>)
        \o MonthLine(2)
        \o DayLine("22", PRE_HOLIDAY \o <<",", SP, "na", SP, "1", SP, "chas", SP, "koroche">>)
        \o MonthLines(3, 12)
        \o DayLine("31", DAY_OFF)]

\* a page of the new layout that marks a 30 February
PAGE_BAD_DAY ==
    [months |-> <<>>,
     text |->
        MonthLine(1) \o DayLine("1", DAY_OFF)
        \o MonthLine(2) \o DayLine("30", DAY_OFF)
        \o MonthLines(3, 12)]

\* a page neither layout fits: eleven month containers, a text without March
PAGE_BROKEN ==
    [months |-> [i \in 1..11 |-> <<Cell("1", DAY_OFF, CLASS_DAY_OFF)>>],
     text |-> MonthLines(1, 2) \o DayLine("1", DAY_OFF) \o MonthLines(4, 12)]

Http(status, content) ==
    [transport_failure |-> FALSE, status_code |-> status, content |-> content]
TransportFailure ==
    [transport_failure |-> TRUE, status_code |-> 0, content |-> PAGE_EMPTY]

Answers ==
    {"transport", "404", "500", "old_a", "old_b", "empty", "new", "bad_day", "broken"}

\* requests.get(url, ...) for an answer of the site
ResponseOf(answer) ==
    CASE answer = "transport" -> TransportFailure
      [] answer = "404" -> Http(404, PAGE_EMPTY)
      [] answer = "500" -> Http(500, PAGE_EMPTY)
      [] answer = "old_a" -> Http(200, PAGE_OLD_A)
      [] answer = "old_b" -> Http(200, PAGE_OLD_B)
      [] answer = "empty" -> Http(200, PAGE_EMPTY)
      [] answer = "new" -> Http(200, PAGE_NEW)
      [] answer = "bad_day" -> Http(200, PAGE_BAD_DAY)
      [] answer = "broken" -> Http(200, PAGE_BROKEN)

(***************************************************************************)
(* Orchestrator.                                                           *)
(***************************************************************************)
\* args.start_year and args.end_year
StartYear == 2025
EndYear == StartYear + MaxYears - 1
Years == StartYear..EndYear

\* generate_calendar(events)
generate_calendar(evs) ==
    [prodid |-> "-//ru-prodcal-ics//Ru Working Days Calendar//EN",
     version |-> "2.0",
     calscale |-> "GREGORIAN",
     method |-> "PUBLISH",
     name |-> "Ru Working Days Calendar",
     components |-> evs]

\* no output file exists
NoFile == <<>>

IdleMain ==
    /\ pc = "idle" /\ site = <<>> /\ year = 0 /\ events = <<>> /\ fetched = <<>>
    /\ error = <<>> /\ written = FALSE /\ file = NoFile /\ now = 0
    /\ runs = 0 /\ prevWritten = FALSE /\ prevFile = NoFile

\* The site answers the first GET of a year with any of the answers, and
\* every later GET of that year with the same answer.
MainInit ==
    /\ pc = "loop"
    /\ site = [y \in Years |-> "unasked"]
    /\ year = StartYear
    /\ events = <<>>
    /\ fetched = <<>>
    /\ error = <<>>
    /\ written = FALSE
    /\ file = NoFile
    /\ now = 0
    /\ runs = 1
    /\ prevWritten = FALSE
    /\ prevFile = NoFile

\* requests.get(...) of the current year is answered a
Get_(a) ==
    /\ site[year] \in {"unasked", a}
    /\ site' = [site EXCEPT ![year] = a]

\* what get_days_by_months_with_types(year) gives when the site answers a
\* (the answers are few: each is parsed once and the result looked up)
ParsedAnswers ==
    [a \in Answers |-> [y \in Years |-> get_days_by_months_with_types(y, ResponseOf(a))]]
MonthsMaps(a) == ParsedAnswers[a][year]

\* what generate_events gives for the months of a year answered a, at time t
GeneratedAnswers ==
    [a \in Answers |-> [y \in Years |-> [t \in 0..(MaxClock + 1) |->
        IF ParsedAnswers[a][y].raised THEN [status |-> "raised", events |-> <<>>]
        ELSE generate_events(y, ParsedAnswers[a][y].value, t)]]]
YearEvents(a) == GeneratedAnswers[a][year][now]

\* the pass of the loop for a year without a page that goes on to the next year
YearNotFound_Continue ==
    /\ pc = "loop" /\ year <= EndYear
    /\ \E a \in Answers :
          /\ Get_(a)
          /\ ~MonthsMaps(a).raised
          /\ MonthsMaps(a).value = <<>>
    /\ fetched' = Append(fetched, year)
    /\ year' = year + 1
    /\ UNCHANGED <<pc, events, error, written, file, now, runs, prevWritten, prevFile>>

\* one pass of the loop whose year has no page: "if not months_maps: break"
YearNotFound ==
    /\ pc = "loop" /\ year <= EndYear
    /\ \E a \in Answers :
          /\ Get_(a)
          /\ ~MonthsMaps(a).raised
          /\ MonthsMaps(a).value = <<>>
    /\ fetched' = Append(fetched, year)
    /\ pc' = "assemble"
    /\ UNCHANGED <<year, events, error, written, file, now, runs, prevWritten, prevFile>>

\* one pass of the loop that parses the year and adds its events
YearDone ==
    /\ pc = "loop" /\ year <= EndYear
    /\ \E a \in Answers :
          /\ Get_(a)
          /\ ~MonthsMaps(a).raised
          /\ MonthsMaps(a).value # <<>>
          /\ YearEvents(a).status = "ok"
          /\ events' = events \o YearEvents(a).events
    /\ fetched' = Append(fetched, year)
    /\ year' = year + 1
    /\ UNCHANGED <<pc, error, written, file, now, runs, prevWritten, prevFile>>

\* one pass of the loop that ends the program with the exception of the
\* fetch or of the parser
YearRaises ==
    /\ pc = "loop" /\ year <= EndYear
    /\ \E a \in Answers :
          /\ Get_(a)
          /\ MonthsMaps(a).raised
          /\ error' = MonthsMaps(a).message
    /\ fetched' = Append(fetched, year)
    /\ pc' = "failed"
    /\ UNCHANGED <<year, events, written, file, now, runs, prevWritten, prevFile>>

\* one pass of the loop that ends the program with make_event's ValueError
EventRaises ==
    /\ pc = "loop" /\ year <= EndYear
    /\ \E a \in Answers :
          /\ Get_(a)
          /\ ~MonthsMaps(a).raised
          /\ MonthsMaps(a).value # <<>>
          /\ YearEvents(a).status = "ValueError"
    /\ error' = MSG_VALUE
    /\ fetched' = Append(fetched, year)
    /\ pc' = "failed"
    /\ UNCHANGED <<year, events, written, file, now, runs, prevWritten, prevFile>>

\* the range is exhausted
LoopEnd ==
    /\ pc = "loop" /\ year > EndYear
    /\ pc' = "assemble"
    /\ UNCHANGED <<site, year, events, fetched, error, written, file, now, runs,
                   prevWritten, prevFile>>

\* cal = generate_calendar(events); f.write(cal.to_ical())
WriteFile ==
    /\ pc = "assemble"
    /\ file' = generate_calendar(events)
    /\ written' = TRUE
    /\ pc' = "done"
    /\ UNCHANGED <<site, year, events, fetched, error, now, runs, prevWritten, prevFile>>

\* time passes while the program runs
Tick ==
    /\ pc = "loop"
    /\ now < MaxClock
    /\ now' = now + 1
    /\ UNCHANGED <<pc, site, year, events, fetched, error, written, file, runs,
                   prevWritten, prevFile>>

\* the program is started a second time, later, against the same site; what
\* the first run left is kept aside
Rerun ==
    /\ pc \in {"done", "failed"}
    /\ runs < 2
    /\ runs' = runs + 1
    /\ prevWritten' = written
    /\ prevFile' = file
    /\ now' = now + 1
    /\ pc' = "loop"
    /\ year' = StartYear
    /\ events' = <<>>
    /\ fetched' = <<>>
    /\ error' = <<>>
    /\ written' = FALSE
    /\ file' = NoFile
    /\ UNCHANGED site

IdleUid == upc = "idle" /\ uargs = <<>> /\ uevent = <<>>

IdleEvents == epc = "idle" /\ eyear = 0 /\ emaps = <<>> /\ eresult = <<>>

Init == IdleClassify /\ IdleGroup /\ IdleEvents /\ IdleUid /\ MainInit

Next ==
    \/ (YearNotFound /\ UNCHANGED <<classifyVars, groupVars, eventVars, uidVars>>)
    \/ (YearDone /\ UNCHANGED <<classifyVars, groupVars, eventVars, uidVars>>)
    \/ (YearRaises /\ UNCHANGED <<classifyVars, groupVars, eventVars, uidVars>>)
    \/ (EventRaises /\ UNCHANGED <<classifyVars, groupVars, eventVars, uidVars>>)
    \/ (LoopEnd /\ UNCHANGED <<classifyVars, groupVars, eventVars, uidVars>>)
    \/ (WriteFile /\ UNCHANGED <<classifyVars, groupVars, eventVars, uidVars>>)
    \/ (Tick /\ UNCHANGED <<classifyVars, groupVars, eventVars, uidVars>>)
    \/ (Rerun /\ UNCHANGED <<classifyVars, groupVars, eventVars, uidVars>>)

Spec == Init /\ [][Next]_vars

ClassifySpecInit == ClassifyInit /\ IdleGroup /\ IdleEvents /\ IdleUid /\ IdleMain
ClassifyNext ==
    \/ (ClassifyOld /\ UNCHANGED <<groupVars, eventVars, uidVars, mainVars>>)
    \/ (ClassifyFallback /\ UNCHANGED <<groupVars, eventVars, uidVars, mainVars>>)
ClassifySpec == ClassifySpecInit /\ [][ClassifyNext]_vars

GroupSpecInit == IdleClassify /\ GroupInit /\ IdleEvents /\ IdleUid /\ IdleMain
GroupNext ==
    \/ (Group /\ UNCHANGED <<classifyVars, eventVars, uidVars, mainVars>>)
    \/ (Split /\ UNCHANGED <<classifyVars, eventVars, uidVars, mainVars>>)
GroupSpec == GroupSpecInit /\ [][GroupNext]_vars

(***************************************************************************)
(* EventsSpec: generate_events on the month maps of one year, and          *)
(* make_event on one chunk.                                                *)
(*                                                                         *)
(* One month of the year holds MaxDay days in three stretches, each of one *)
(* kind or of working days, at the start or at the end of the month; the   *)
(* month after it holds one day off on its first day.                      *)
(***************************************************************************)
Kinds == {"dayoff", "holiday", "shortened"}
NamePatterns == {"same", "none", "alt", "partial", "split"}

\* the name of the i-th day of the stretches when it is a holiday
NameFor(np, i) ==
    CASE np = "same" -> NEW_YEAR
      [] np = "none" -> None
      [] np = "alt" -> IF i % 2 = 1 THEN NEW_YEAR ELSE DEFENDER
      [] np = "partial" -> IF i % 2 = 1 THEN NEW_YEAR ELSE None
      [] np = "split" -> IF i <= MAX_SPAN_DAYS THEN NEW_YEAR ELSE DEFENDER

\* where the stretches lie: the year, the month, the day before the first of
\* them, and whether the dict lists the days in descending order
Placements ==
    {[y |-> StartYear, m |-> 1, base |-> 0, rev |-> FALSE],
     [y |-> StartYear - 1, m |-> 2, base |-> DaysInMonth(StartYear - 1, 2) - MaxDay,
      rev |-> TRUE],
     [y |-> StartYear, m |-> 2, base |-> DaysInMonth(StartYear, 2) - MaxDay, rev |-> FALSE],
     [y |-> StartYear, m |-> 12, base |-> DaysInMonth(StartYear, 12) - MaxDay, rev |-> TRUE]}

StretchMap(pl, a, b, k1, k2, k3, np) ==
    LET kindOf(i) == IF i <= a THEN k1 ELSE IF i <= b THEN k2 ELSE k3
        marked == SelectSeq([i \in 1..MaxDay |-> i], LAMBDA i : kindOf(i) \in Kinds)
        asc == [j \in 1..Len(marked) |->
                   [day |-> pl.base + marked[j],
                    kind |-> kindOf(marked[j]),
                    name |-> IF kindOf(marked[j]) = "holiday"
                             THEN NameFor(np, marked[j]) ELSE None]]
    IN  IF pl.rev THEN Reverse(asc) ELSE asc

YearMaps(pl, month_map) ==
    [mm \in 1..12 |->
        IF mm = pl.m THEN month_map
        ELSE IF mm = pl.m + 1 THEN <<[day |-> 1, kind |-> "dayoff", name |-> None]>>
        ELSE <<>>]

EventsInit ==
    /\ epc = "start"
    /\ \E pl \in Placements, a \in 0..MaxDay, k1, k2, k3 \in Kinds \cup {"working"},
          np \in NamePatterns :
          \E b \in a..MaxDay :
              /\ eyear = pl.y
              /\ emaps = YearMaps(pl, StretchMap(pl, a, b, k1, k2, k3, np))
    /\ eresult = <<>>

\* events = generate_events(year, months_maps), at some time of the clock
Generate ==
    /\ epc = "start"
    /\ \E t \in {0, MaxClock} :
          eresult' = <<generate_events(eyear, emaps, t)>>
    /\ epc' = "done"
    /\ UNCHANGED <<eyear, emaps>>

\* make_event on one chunk of one month: any year of UidYears, any month,
\* any chunk of at most MAX_SPAN_DAYS days of the month, any of the summaries
UidYears == {StartYear - 1, StartYear}

UidInit ==
    /\ upc = "start"
    /\ \E y \in UidYears, m \in 1..12, summary \in Summaries :
          \E ds \in 1..DaysInMonth(y, m) :
              \E de \in ds..Min(ds + MAX_SPAN_DAYS - 1, DaysInMonth(y, m)) :
                  uargs = [y |-> y, m |-> m, ds |-> ds, de |-> de, summary |-> summary]
    /\ uevent = <<>>

\* ev = make_event(...), with or without a description, at some time
MakeEvent ==
    /\ upc = "start"
    /\ \E c \in {<<None, 0>>, <<NEW_YEAR, MaxClock>>} :
          uevent' = <<make_event(uargs.y, uargs.m, uargs.ds, uargs.de, uargs.summary,
                                 c[1], c[2])>>
    /\ upc' = "done"
    /\ UNCHANGED uargs

\* either generate_events is called on the maps of a year, or make_event on
\* one chunk
EventsSpecInit ==
    /\ IdleClassify /\ IdleGroup /\ IdleMain
    /\ \/ (EventsInit /\ IdleUid)
       \/ (IdleEvents /\ UidInit)
EventsNext ==
    \/ (Generate /\ UNCHANGED <<classifyVars, groupVars, uidVars, mainVars>>)
    \/ (MakeEvent /\ UNCHANGED <<classifyVars, groupVars, eventVars, mainVars>>)
EventsSpec == EventsSpecInit /\ [][EventsNext]_vars

(***************************************************************************)
(* What the claims are stated with.                                        *)
(***************************************************************************)
DateLT(a, b) ==
    \/ a[1] < b[1]
    \/ (a[1] = b[1] /\ a[2] < b[2])
    \/ (a[1] = b[1] /\ a[2] = b[2] /\ a[3] < b[3])
DateLE(a, b) == a = b \/ DateLT(a, b)

\* the event covers the date: DTSTART <= date < DTEND
Covers(e, date) == DateLE(e.dtstart, date) /\ DateLT(date, e.dtend)

SummaryOf(kind) ==
    CASE kind = "dayoff" -> SUMMARY_DAY_OFF
      [] kind = "holiday" -> SUMMARY_HOLIDAY
      [] kind = "shortened" -> SUMMARY_SHORTENED
      [] OTHER -> <<>>

\* the kind and the name a list of month maps gives a day
KindAt(maps, m, d) ==
    IF \E j \in 1..Len(maps[m]) : maps[m][j].day = d
    THEN maps[m][CHOOSE j \in 1..Len(maps[m]) : maps[m][j].day = d].kind
    ELSE "working"
NameAt(maps, m, d) ==
    IF \E j \in 1..Len(maps[m]) : maps[m][j].day = d
    THEN maps[m][CHOOSE j \in 1..Len(maps[m]) : maps[m][j].day = d].name
    ELSE None

\* the last day an event of month m of year y covers, 0 when its DTEND is
\* not the day after a day of the month on or after its first day
LastDay(e) ==
    LET y == e.dtstart[1]
        m == e.dtstart[2]
        ends == {d \in e.dtstart[3]..DaysInMonth(y, m) : NextDay(<<y, m, d>>) = e.dtend}
    IN  IF ends = {} THEN 0 ELSE CHOOSE d \in ends : TRUE

\* the first day of the run of days of one kind that day d of month m ends
RECURSIVE RunStart(_, _, _)
RunStart(maps, m, d) ==
    IF d > 1 /\ KindAt(maps, m, d - 1) = KindAt(maps, m, d)
    THEN RunStart(maps, m, d - 1) ELSE d

EGen == eresult[1]
EEvents == EGen.events

\* the events of a list are what the claim says of the month maps of year y
EventsMatchMaps(evs, y, maps) ==
    /\ \A m \in 1..12 : \A j \in 1..Len(maps[m]) :
          LET over == {i \in 1..Len(evs) : Covers(evs[i], <<y, m, maps[m][j].day>>)}
          IN  /\ Cardinality(over) = 1
              /\ \A i \in over : evs[i].summary = SummaryOf(maps[m][j].kind)
    /\ \A i \in 1..Len(evs) :
          LET e == evs[i]
              m == e.dtstart[2]
              ds == e.dtstart[3]
              de == LastDay(e)
          IN  /\ e.dtstart[1] = y
              /\ de >= ds
              /\ de - ds + 1 <= MAX_SPAN_DAYS
              /\ e.dtend = NextDay(<<y, m, de>>)
              /\ \A d \in ds..de : e.summary = SummaryOf(KindAt(maps, m, d))
              \* the chunks of a run are cut every MAX_SPAN_DAYS days from its start
              /\ (ds - RunStart(maps, m, ds)) % MAX_SPAN_DAYS = 0
              /\ (de < DaysInMonth(y, m) /\ KindAt(maps, m, de + 1) = KindAt(maps, m, ds))
                    => de - ds + 1 = MAX_SPAN_DAYS

C8_DescriptionIffSameName ==
    epc = "done" =>
        \A i \in 1..Len(EEvents) :
            LET e == EEvents[i]
                names == {NameAt(emaps, e.dtstart[2], d) : d \in e.dtstart[3]..LastDay(e)}
            IN  e.summary = SUMMARY_HOLIDAY =>
                    /\ e.description # None <=> (Cardinality(names) = 1 /\ None \notin names)
                    /\ e.description # None => names = {e.description}

\* the day numbers of a list, of a list of lists
Elems(l) == {l[i] : i \in 1..Len(l)}
AllElems(ls) == UNION {Elems(ls[i]) : i \in 1..Len(ls)}

RECURSIVE Flatten(_)
Flatten(ls) == IF ls = <<>> THEN <<>> ELSE Head(ls) \o Flatten(Tail(ls))

NoRepeats(l) == Cardinality(Elems(l)) = Len(l)

PairwiseDisjoint(ls) ==
    \A i, j \in 1..Len(ls) : i # j => Elems(ls[i]) \cap Elems(ls[j]) = {}
Consecutive(l) == \A i \in 1..(Len(l) - 1) : l[i + 1] = l[i] + 1
StrictlyAscending(l) == \A i \in 1..(Len(l) - 1) : l[i] < l[i + 1]

\* C4 (as claimed): for every list of day numbers, repeats allowed, the chunks
\* of group_consecutive_days followed by split_run_into_chunks(7) are
\* (a) pairwise disjoint, (b) runs of consecutive integers, (c) at most 7
\* long, and (d) hold together exactly the days of the list.
C4_ChunksOfAnyList ==
    gpc = "done" =>
        /\ PairwiseDisjoint(chunks)
        /\ \A i \in 1..Len(chunks) : Consecutive(chunks[i])
        /\ \A i \in 1..Len(chunks) : Len(chunks[i]) <= MAX_SPAN_DAYS
        /\ AllElems(chunks) = Elems(days)

\* C4 (amended): (b), (c) and (d) hold for every list; (a) holds, and the
\* chunks put end to end are the days in ascending order, for every list
\* that holds no day twice.
C4_ChunksOfDistinctDays ==
    gpc = "done" =>
        /\ \A i \in 1..Len(chunks) : chunks[i] # <<>> /\ Consecutive(chunks[i])
        /\ \A i \in 1..Len(chunks) : Len(chunks[i]) <= MAX_SPAN_DAYS
        /\ AllElems(chunks) = Elems(days)
        /\ NoRepeats(days) =>
              /\ PairwiseDisjoint(chunks)
              /\ StrictlyAscending(Flatten(chunks))
              /\ Len(Flatten(chunks)) = Len(days)

\* a list out of order that holds a run of more than 7 days and a second
\* run, cut into three chunks
C4_Witness ==
    /\ gpc = "done"
    /\ NoRepeats(days)
    /\ ~StrictlyAscending(days)
    /\ Len(groups) = 2
    /\ Len(groups[1]) > MAX_SPAN_DAYS
    /\ Len(chunks) = 3
    /\ Len(chunks[1]) = MAX_SPAN_DAYS

\* the text of at most WINDOW characters, without a non-breaking space, of a
\* day element that has no "shortened" class
PlainCase ==
    /\ CharLen(hint_text) <= WINDOW
    /\ NBSP \notin Elems(hint_text)
    /\ ~HasShortened(li_classes)

\* the text after the first period holds no further period and no line break
\* inside it
OneSentence ==
    LET h == Strip(hint_text)
    IN  FirstOf(h, {DOT}) # 0 => FirstOf(Strip(AfterFirstDot(h)), {DOT, NL}) = 0

\* C7 (as claimed): the structured layout's classification of a text and the
\* fallback's classification of the same text give the same day type and the
\* same holiday name.
C7_SameClassification ==
    cpc = "done" => oldResult = fbResult

\* C7 (amended): for a text of at most 120 characters without a non-breaking
\* space, on a day element without the "shortened" class, both give the same
\* day type ("pre-holiday day" shortened, "day off." holiday, "day off" day
\* off, anything else unclassified), and the same holiday name when the text
\* after the period holds no further period or line break; where it does, the
\* fallback keeps the name up to there and the structured layout keeps it all.
C7_SameOnPlainText ==
    cpc = "done" =>
        LET h == Strip(hint_text) IN
        /\ PlainCase =>
              /\ oldResult.kind = fbResult.kind
              /\ StartsWith(h, PRE_HOLIDAY) => oldResult.kind = "shortened"
              /\ StartsWith(h, DAY_OFF_DOT) => oldResult.kind = "holiday"
              /\ (StartsWith(h, DAY_OFF) /\ ~StartsWith(h, DAY_OFF_DOT))
                    => oldResult.kind = "dayoff"
              /\ (~StartsWith(h, DAY_OFF) /\ ~StartsWith(h, PRE_HOLIDAY))
                    => oldResult = Unclassified
              /\ OneSentence => oldResult = fbResult
              /\ oldResult.kind = "holiday" =>
                    /\ oldResult.name = Strip(AfterFirstDot(h))
                    /\ fbResult.name = Strip(BeforeSentenceEnd(oldResult.name))

\* a named holiday both classify alike
C7_Witness ==
    /\ cpc = "done"
    /\ PlainCase /\ OneSentence
    /\ oldResult.kind = "holiday"
    /\ oldResult.name = <<"Novogodnie", SP, "Novogodnie">>
    /\ fbResult = oldResult

(***************************************************************************)
(* Reading an identifier back.                                             *)
(***************************************************************************)
\* the number a sequence of digit characters writes; a character that is no
\* digit counts as 10
DigitVal(c) ==
    IF \E i \in 1..10 : DigitChars[i] = c
    THEN (CHOOSE i \in 1..10 : DigitChars[i] = c) - 1
    ELSE 10
RECURSIVE NumberOf(_)
NumberOf(cs) ==
    IF cs = <<>> THEN 0
    ELSE 10 * NumberOf(SubSeq(cs, 1, Len(cs) - 1)) + DigitVal(cs[Len(cs)])

\* reads the five inputs back from an identifier: the characters before the
\* first dash after the prefix are the year and then two of the month and
\* two of the start day, the two after the dash the end day, the rest after
\* one more dash the summary in lower case with dashes; <<>> for an
\* identifier of another shape
ReadUid(uid) ==
    LET body == SubSeq(uid, Len(UID_PREFIX) + 1, Len(uid))
        k == FirstOf(body, {"-"})
        date == SubSeq(body, 1, k - 1)
        n == Len(date)
        rest == SubSeq(body, k + 4, Len(body))
    IN  IF \/ ~StartsWith(uid, UID_PREFIX)
           \/ k < 6
           \/ Len(body) < k + 4
           \/ body[k + 3] # "-"
           \/ ~\E s \in Summaries : Slug(s) = rest
        THEN <<>>
        ELSE <<[y |-> NumberOf(SubSeq(date, 1, n - 4)),
                m |-> NumberOf(SubSeq(date, n - 3, n - 2)),
                ds |-> NumberOf(SubSeq(date, n - 1, n)),
                de |-> NumberOf(SubSeq(body, k + 1, k + 2)),
                summary |-> CHOOSE s \in Summaries : Slug(s) = rest]>>

\* inputs that differ from args in exactly one of the five components:
\* another year, any other month, the days next to the start and the end
\* day and the ends of the range 1..31, any other summary
OneChanged(args) ==
    {[args EXCEPT !.y = y] : y \in (UidYears \cup {args.y + 1}) \ {args.y}}
    \cup {[args EXCEPT !.m = m] : m \in (1..12) \ {args.m}}
    \cup {[args EXCEPT !.ds = d] : d \in ({1, args.ds - 1, args.ds + 1, 31} \cap (1..31)) \ {args.ds}}
    \cup {[args EXCEPT !.de = d] : d \in ({1, args.de - 1, args.de + 1, 31} \cap (1..31)) \ {args.de}}
    \cup {[args EXCEPT !.summary = l] : l \in Summaries \ {args.summary}}

AnswerAt(y) == ResponseOf(site[y])

\* the fetch of year y is answered 404
NotFoundAt(y) == ~AnswerAt(y).transport_failure /\ AnswerAt(y).status_code = 404

\* the page of year y fits neither layout: not 12 month containers, and no
\* 12 month maps from the flat text
LayoutFails(response) ==
    /\ ~response.transport_failure
    /\ response.status_code < 400
    /\ Len(response.content.months) # 12
    /\ \/ parse_months_text_fallback(response.content).raised
       \/ Len(parse_months_text_fallback(response.content).value) # 12
LayoutFailures == {a \in Answers : LayoutFails(ResponseOf(a))}
LayoutFailsAt(y) == site[y] \in LayoutFailures

\* the fetch of year y fails, or its page fits neither layout
FatalAt(y) ==
    \/ AnswerAt(y).transport_failure
    \/ (AnswerAt(y).status_code >= 400 /\ AnswerAt(y).status_code # 404)
    \/ LayoutFailsAt(y)

\* the page of year y gives 12 month maps
ParsedAt(y) == ~NotFoundAt(y) /\ ~FatalAt(y)

\* events with the build time taken out
WithoutStamps(evs) == [i \in 1..Len(evs) |-> [evs[i] EXCEPT !.dtstamp = 0]]

\* the events of the years from..to, year after year
RECURSIVE EventsOfYears(_, _)
EventsOfYears(from, to) ==
    IF from > to THEN <<>>
    ELSE GeneratedAnswers[site[from]][from][0].events
         \o EventsOfYears(from + 1, to)

\* C1: once the fetch of a year Y is answered 404, Y is the last year
\* fetched in the run and no year after Y is fetched; the run goes on to
\* write the file, and the feed holds the events of the years
\* start_year..Y-1, in this order, and no others.
C1_StopAtFirstMissingYear ==
    \A i \in 1..Len(fetched) :
        NotFoundAt(fetched[i]) =>
            /\ i = Len(fetched)
            /\ \A j \in 1..Len(fetched) : fetched[j] <= fetched[i]
            /\ fetched = [j \in 1..i |-> StartYear + j - 1]
            /\ pc \in {"assemble", "done"}
            /\ WithoutStamps(events) = WithoutStamps(EventsOfYears(StartYear, fetched[i] - 1))
            /\ pc = "done" => (written /\ file = generate_calendar(events))

\* the second year is answered 404 and the file holds the events of the first
C1_Witness ==
    /\ pc = "done"
    /\ written
    /\ Len(fetched) = 2
    /\ EndYear > fetched[2]
    /\ NotFoundAt(fetched[2])
    /\ Len(file.components) > 0
    /\ \A i \in 1..Len(file.components) : file.components[i].dtstart[1] = StartYear

\* C2: a year that ends in a fatal outcome (an HTTP status from 400 on other
\* than 404, a transport failure, a page that fits neither layout) is the
\* last year fetched, the run ends on it with the error and never writes the
\* file; a file is written only when every year fetched gave 12 month maps
\* or was the 404 that stopped the loop.
C2_NoPartialOutput ==
    /\ \A i \in 1..Len(fetched) :
          FatalAt(fetched[i]) =>
              /\ i = Len(fetched)
              /\ pc = "failed"
              /\ error # <<>>
    /\ pc = "failed" => (~written /\ file = NoFile)
    /\ written =>
          /\ \A i \in 1..Len(fetched) : ParsedAt(fetched[i]) \/ NotFoundAt(fetched[i])
          /\ \A i \in 1..(Len(fetched) - 1) : ParsedAt(fetched[i])

\* the first year gave events, the second is fatal, nothing is written
C2_Witness ==
    /\ pc = "failed"
    /\ Len(fetched) = 2
    /\ FatalAt(fetched[2])
    /\ events # <<>>
    /\ ~written
    /\ file = NoFile

\* the message holds the year written in digits
NamesYear(msg, y) ==
    \E i \in 1..Len(msg) :
        /\ i + Len(Digits(y)) - 1 <= Len(msg)
        /\ SubSeq(msg, i, i + Len(Digits(y)) - 1) = Digits(y)

\* C3 (as claimed): when the page of a year fits neither layout, parsing the
\* year gives no month maps and raises an error whose message names the year.
C3_LayoutErrorNamesYear ==
    \A y \in Years :
        (pc = "failed" /\ fetched # <<>> /\ fetched[Len(fetched)] = y /\ LayoutFailsAt(y)) =>
            /\ ParsedAnswers[site[y]][y].raised
            /\ ParsedAnswers[site[y]][y].value = <<>>
            /\ error = ParsedAnswers[site[y]][y].message
            /\ NamesYear(error, y)

\* the place of an event in the order of the feed: year, month, day type
\* (Day off, Holiday, Shortened workday), start day
TypeRank(summary) ==
    CASE summary = SUMMARY_DAY_OFF -> 1
      [] summary = SUMMARY_HOLIDAY -> 2
      [] OTHER -> 3
FeedKey(e) == <<e.dtstart[1], e.dtstart[2], TypeRank(e.summary), e.dtstart[3]>>
KeyLT(a, b) ==
    \/ a[1] < b[1]
    \/ (a[1] = b[1] /\ a[2] < b[2])
    \/ (a[1] = b[1] /\ a[2] = b[2] /\ a[3] < b[3])
    \/ (a[1] = b[1] /\ a[2] = b[2] /\ a[3] = b[3] /\ a[4] < b[4])

\* C6 (as claimed): in the feed given to the serializer the events are
\* ordered by start date, events of different day types of one month included.
C6_FeedSortedByStart ==
    pc = "done" =>
        \A i, j \in 1..Len(file.components) :
            i < j => DateLE(file.components[i].dtstart, file.components[j].dtstart)

\* C6 (amended): the events are ordered by year, then month, then day type
\* in the order Day off, Holiday, Shortened workday, then start date: two
\* events of one day type, or of different months, are in the order of their
\* start dates; inside a month every Day off event precedes every Holiday
\* event and these every Shortened workday event, whatever their dates.
C6_FeedOrderedByMonthTypeStart ==
    /\ \A i, j \in 1..Len(events) :
          i < j => KeyLT(FeedKey(events[i]), FeedKey(events[j]))
    /\ pc = "done" => file.components = events

\* a feed whose January holds a Day off event before a Holiday event that
\* starts earlier, and events of two years
C6_Witness ==
    /\ pc = "done"
    /\ \E i, j \in 1..Len(file.components) :
          /\ i < j
          /\ file.components[i].dtstart[2] = file.components[j].dtstart[2]
          /\ file.components[i].summary = SUMMARY_DAY_OFF
          /\ file.components[j].summary = SUMMARY_HOLIDAY
          /\ DateLT(file.components[j].dtstart, file.components[i].dtstart)
    /\ \E i \in 1..Len(file.components) : file.components[i].dtstart[1] = StartYear + 1

\* C10 (as claimed): two runs over the same year range that are given the
\* same pages, at different times, write identical feeds.
C10_RerunSameFile ==
    (runs >= 2 /\ pc = "done" /\ prevWritten) => file = prevFile

\* C10 (amended): the second run ends as the first did, and its feed holds
\* the same events in the same order with the same field values except
\* DTSTAMP, the build time, which is later in every event of the later run;
\* the feeds are identical only when they hold no event.
C10_RerunSameButStamps ==
    /\ (runs >= 2 /\ pc = "done") =>
          /\ prevWritten
          /\ Len(file.components) = Len(prevFile.components)
          /\ WithoutStamps(file.components) = WithoutStamps(prevFile.components)
          /\ [file EXCEPT !.components = <<>>] = [prevFile EXCEPT !.components = <<>>]
          /\ \A i \in 1..Len(file.components) :
                file.components[i].dtstamp > prevFile.components[i].dtstamp
    /\ (runs >= 2 /\ pc = "failed") => ~prevWritten

\* a second run that wrote the events of the first with later stamps
C10_Witness ==
    /\ runs = 2
    /\ pc = "done"
    /\ prevWritten
    /\ Len(file.components) > 1
    /\ file # prevFile
    /\ WithoutStamps(file.components) = WithoutStamps(prevFile.components)

=============================================================================
